---- MODULE Spec2Model ----
(***************************************************************************)
(* Data-access layer of alpha-lens: UnifiedDataManager (file cache with    *)
(* per-operation maximum age, hit/miss counters, source selection and      *)
(* failover) on top of PolygonDataFeed (_make_request with its rolling     *)
(* rate window and retry loop) and the Alpaca / Yahoo feeds.               *)
(*                                                                         *)
(* One caller runs the synchronous API, except under SpecConc and         *)
(* SpecRace, where two threads share one feed or one cache file.  Time is  *)
(* an integer clock counted in tenths of a second; it advances while the   *)
(* code sleeps and between calls.  SpecSocket is about the streaming      *)
(* client, PolygonWebSocketClient, on its own.                             *)
(***************************************************************************)
EXTENDS Integers, Sequences, FiniteSets, TLC

VARIABLES
    now,              \* wall clock: time.time() / datetime.now()
    sources,          \* UnifiedDataManager.sources: name -> feed object present
    connected,        \* BaseDataFeed.connected of each feed
    enable_caching,   \* UnifiedDataManager.enable_caching
    cache,            \* files of cache_dir: key -> NoFile or pickled record
    cache_hits,       \* UnifiedDataManager.cache_hits
    cache_misses,     \* UnifiedDataManager.cache_misses
    call_timestamps,  \* PolygonDataFeed.call_timestamps
    pc,               \* position of the caller
    call,             \* frame of the running UnifiedDataManager method
    frame,            \* frame of the running PolygonDataFeed method
    result,           \* what the finished API call hands to its caller
    sent,             \* history: send time of every HTTP request
    obs,              \* history of the running API call
    last,             \* history: the previous completed API call
    ncalls,           \* number of API calls started
    nticks            \* number of idle clock advances

vars == <<now, sources, connected, enable_caching, cache, cache_hits,
          cache_misses, call_timestamps, pc, call, frame, result, sent,
          obs, last, ncalls, nticks>>

----------------------------------------------------------------------------
(* Bounds of the exploration *)

MaxCalls == 2
MaxTicks == 1
MaxAttempts == 4
MaxConnects == 2

(* Program constants, in the model's time unit *)

Sec == 10
calls_per_minute == 5
retries == 3
WindowSecs == 60
CooldownSecs == 60
HistMaxAge == 24 * 3600 * Sec
IntradayMaxAge == 60 * Sec
OptionsMaxAge == 2988
CryptoMaxAge == 3600 * Sec

Providers == {"alpaca", "polygon", "yahoo"}

(* Idle time the caller may let pass between two calls *)
Advances == {WindowSecs * Sec, OptionsMaxAge, OptionsMaxAge + 1, HistMaxAge, HistMaxAge + 1}

(* What the upstream may answer to one HTTP request: a 200 with results,  *)
(* a 200 whose body the feed method cannot parse, 429, 5xx, another 4xx,  *)
(* or no answer at all (the transport raises).                            *)
Responses == {"ok", "malformed", "429", "5xx", "4xx", "exc"}

(* The answers explored under the manager-level specification *)
ManagerResponses == {"ok", "malformed", "4xx"}

(* The source argument callers pass *)
ForcedSources == {"None", "polygon"}

(* What a call into the Alpaca or Yahoo client library may do *)
Outcomes == {"data", "empty", "raise"}

----------------------------------------------------------------------------
(* Requests *)

SymA == <<"A">>
SymB == <<"B">>

Date(d, t) == [day |-> d, tod |-> t]

HistRequests ==
    { [symbols |-> <<SymA>>, start |-> Date(1, 0), end |-> Date(2, 0), timeframe |-> "1Day"] }

(* The same two symbols listed in either order *)
OrderRequests ==
    { [symbols |-> syms, start |-> Date(1, 0), end |-> Date(2, 0), timeframe |-> "1Day"] :
        syms \in {<<SymA, SymB>>, <<SymB, SymA>>} }

(* One-minute bars from the same day on, asked for from two times of day *)
IntradayRequests ==
    { [symbols |-> <<SymA>>, start |-> Date(1, tod), end |-> Date(2, 0), timeframe |-> "1Min"] :
        tod \in {0, 1} }

LatestRequests ==
    { [symbols |-> <<SymA>>] }

OptionsRequests ==
    { [underlying_symbol |-> SymA, expiration_date |-> "None", strike_price |-> "None", option_type |-> "None"] }

CryptoRequests ==
    { [from_currency |-> <<"B", "T", "C">>, to_currency |-> <<"U", "S", "D">>,
       start |-> Date(1, 0), end |-> Date(2, 0), timeframe |-> "1Day"] }

RECURSIVE Join(_)
Join(symbols) ==
    IF Len(symbols) = 0 THEN <<>>
    ELSE IF Len(symbols) = 1 THEN symbols[1]
    ELSE symbols[1] \o <<"-">> \o Join(Tail(symbols))

CacheKey(op, req) ==
    CASE op = "hist"    -> <<"hist", Join(req.symbols), req.start.day, req.end.day, req.timeframe>>
      [] op = "options" -> <<"options", req.underlying_symbol, req.expiration_date, req.strike_price, req.option_type>>
      [] op = "crypto"  -> <<"crypto", req.from_currency \o req.to_currency, req.start.day, req.end.day, req.timeframe>>
      [] OTHER          -> <<"latest">>

KeySpace ==
    {CacheKey("hist", r) : r \in HistRequests \cup OrderRequests \cup IntradayRequests}
      \cup {CacheKey("options", r) : r \in OptionsRequests}
      \cup {CacheKey("crypto", r) : r \in CryptoRequests}

MaxAge(op) ==
    CASE op = "hist"    -> HistMaxAge
      [] op = "options" -> OptionsMaxAge
      [] op = "crypto"  -> CryptoMaxAge
      [] OTHER          -> 0

----------------------------------------------------------------------------
(* Values *)

NoFile == [kind |-> "nofile"]
Corrupt == [kind |-> "corrupt"]
NoData == [kind |-> "nodata"]
NoCall == [op |-> "none"]
NoFrame == [method |-> "none"]
NoResult == [kind |-> "none"]
NoObs == [t0 |-> 0]
NoLast == [op |-> "none"]

SeqMin(q) == CHOOSE m \in {q[i] : i \in 1..Len(q)} : \A i \in 1..Len(q) : m <= q[i]

(* A timestamp younger than the rate window at time t *)
InWindow(t, ts) == t - ts < WindowSecs * Sec

Payload(src, op, req, t) == [kind |-> "payload", src |-> src, op |-> op, req |-> req, at |-> t]

----------------------------------------------------------------------------
(* UnifiedDataManager: the file cache *)

Record(data, t) == [kind |-> "record", data |-> data, timestamp |-> t]

(* A _save_to_cache that writes nothing *)
save_to_cache_drop(files, key, data, t) == files

(* _save_to_cache: pickle {data, timestamp: now} into <key>.pkl *)
save_to_cache(files, key, data, t) ==
    [files EXCEPT ![key] = Record(data, t)]

(* A _load_from_cache that never checks the age *)
load_from_cache_stale(files, key, max_age, t) ==
    IF files[key] \in {NoFile, Corrupt}
    THEN [found |-> FALSE, data |-> NoData, files |-> files]
    ELSE [found |-> TRUE, data |-> files[key].data, files |-> files]

(* A _load_from_cache that lets an entry live a second too long *)
load_from_cache_late(files, key, max_age, t) ==
    IF files[key] \in {NoFile, Corrupt}
    THEN [found |-> FALSE, data |-> NoData, files |-> files]
    ELSE IF t - files[key].timestamp <= max_age + Sec
         THEN [found |-> TRUE, data |-> files[key].data, files |-> files]
         ELSE [found |-> FALSE, data |-> NoData, files |-> [files EXCEPT ![key] = NoFile]]

(* A _load_from_cache that hands out whatever the file holds *)
load_from_cache_unchecked(files, key, max_age, t) ==
    IF files[key] = NoFile
    THEN [found |-> FALSE, data |-> NoData, files |-> files]
    ELSE IF files[key] = Corrupt
    THEN [found |-> TRUE, data |-> NoData, files |-> files]
    ELSE IF t - files[key].timestamp <= max_age
         THEN [found |-> TRUE, data |-> files[key].data, files |-> files]
         ELSE [found |-> FALSE, data |-> NoData, files |-> [files EXCEPT ![key] = NoFile]]

(* _load_from_cache: the stored data if the file exists and is not older  *)
(* than max_age; an expired file is removed.  A file that cannot be read  *)
(* or unpickled raises inside the try: the except returns None and the    *)
(* file stays.                                                            *)
load_from_cache(files, key, max_age, t) ==
    IF files[key] = NoFile
    THEN [found |-> FALSE, data |-> NoData, files |-> files]
    ELSE IF files[key] = Corrupt
    THEN [found |-> FALSE, data |-> NoData, files |-> files]
    ELSE IF t - files[key].timestamp <= max_age
         THEN [found |-> TRUE, data |-> files[key].data, files |-> files]
         ELSE [found |-> FALSE, data |-> NoData, files |-> [files EXCEPT ![key] = NoFile]]

(* A clear_cache that removes nothing *)
clear_cache_keep(files) == files

(* What a write of the cache file may do: succeed, raise in open() with  *)
(* the file untouched, or raise in pickle.dump after open() truncated it. *)
Writes == {"written", "failed", "truncated"}

(* _save_to_cache under an I/O outcome; the exception is caught *)
save_to_cache_io(files, key, data, t, io) ==
    CASE io = "written"   -> save_to_cache(files, key, data, t)
      [] io = "truncated" -> [files EXCEPT ![key] = Corrupt]
      [] OTHER            -> files

(* clear_cache: remove every file of cache_dir *)
clear_cache(files) == [k \in DOMAIN files |-> NoFile]

(* get_cache_stats *)
get_cache_stats(hits, misses) ==
    [cache_hits |-> hits, cache_misses |-> misses, total_requests |-> hits + misses]

----------------------------------------------------------------------------
(* UnifiedDataManager: source selection *)

(* A selection that prefers Yahoo to Polygon *)
SelectHistoricalYahooFirst(source) ==
    IF source # "None" THEN source
    ELSE IF sources["yahoo"] THEN "yahoo"
    ELSE IF sources["polygon"] THEN "polygon"
    ELSE "raise"

SelectHistorical(source) ==
    IF source # "None" THEN source
    ELSE IF sources["polygon"] THEN "polygon"
    ELSE IF sources["yahoo"] THEN "yahoo"
    ELSE "raise"

(* A selection that raises for a forced source that is not configured *)
SelectLatestStrict(source) ==
    IF source # "None" THEN (IF sources[source] THEN source ELSE "raise")
    ELSE IF sources["alpaca"] THEN "alpaca"
    ELSE IF sources["polygon"] THEN "polygon"
    ELSE IF sources["yahoo"] THEN "yahoo"
    ELSE "raise"

SelectLatest(source) ==
    IF source # "None" THEN source
    ELSE IF sources["alpaca"] THEN "alpaca"
    ELSE IF sources["polygon"] THEN "polygon"
    ELSE IF sources["yahoo"] THEN "yahoo"
    ELSE "raise"

Select(op, source) ==
    CASE op = "hist"   -> SelectHistorical(source)
      [] op = "latest" -> SelectLatest(source)
      [] OTHER         -> "polygon"

(* get_available_sources: the names whose feed object is not None *)
get_available_sources(srcs) == {p \in Providers : srcs[p]}

(* health_check: False for a missing feed, otherwise its connected flag *)
health_check(srcs, conn) == [p \in Providers |-> IF srcs[p] THEN conn[p] ELSE FALSE]

(* The except branch of get_historical_data / get_latest_prices: the next *)
(* source to recurse into, or "None" when the method returns empty.       *)
FailoverHistorical(selected) ==
    IF selected = "polygon" /\ sources["yahoo"] THEN "yahoo" ELSE "None"

FailoverLatest(selected) ==
    IF selected = "alpaca" /\ sources["polygon"] THEN "polygon"
    ELSE IF selected = "polygon" /\ sources["yahoo"] THEN "yahoo"
    ELSE "None"

Failover(op, selected) ==
    CASE op = "hist"   -> FailoverHistorical(selected)
      [] op = "latest" -> FailoverLatest(selected)
      [] OTHER         -> "None"

(* Which operations read and write the cache *)
Cached(op) == op \in {"hist", "options", "crypto"}

(* A miss counted by every operation *)
CountsMissAlways(op) == TRUE

(* Which operations count a miss when they are not served from the cache *)
CountsMiss(op) == op \in {"hist", "options", "crypto"}

(* What is recorded about one API call: the arguments and the state it   *)
(* started from, the feed calls made for it and how they ended, the       *)
(* errors logged, the time slept in rate-limit checks and in the retry    *)
(* loop, the HTTP requests of the running _make_request (their number,    *)
(* and for each the answer, the loop index and the sleep that followed)   *)
(* and the number of rate-limit checks.                                   *)
NewObs(op, source) ==
    LET recent == SelectSeq(call_timestamps, LAMBDA ts : InWindow(now, ts))
    IN  [op |-> op, source |-> source, t0 |-> now,
         hits0 |-> cache_hits, misses0 |-> cache_misses, cache0 |-> cache,
         full0 |-> Len(recent) >= calls_per_minute,
         oldest0 |-> IF Len(recent) > 0 THEN SeqMin(recent) ELSE now,
         events |-> <<>>, logged |-> <<>>, waited |-> 0, slept |-> 0,
         http |-> 0, checks |-> 0, tries |-> <<>>]

(* An except branch that logs nothing *)
log_error_swallow(logged, src) == logged

(* logger.error(...) of an except branch *)
log_error(logged, src) == Append(logged, src)

(* A store condition without the emptiness test *)
ShouldStoreEmpty(op, outcome) ==
    Cached(op) /\ enable_caching

(* `if self.enable_caching and not data.empty` before _save_to_cache *)
ShouldStore(op, outcome) ==
    Cached(op) /\ enable_caching /\ outcome = "data"

(* Entry of a UnifiedDataManager method up to the call into the feed:     *)
(* precondition, cache lookup, counters, source selection.                *)
Enter(op, req, source, o) ==
    LET key == CacheKey(op, req)
        lookup == Cached(op) /\ enable_caching
        lk == load_from_cache(cache, key, MaxAge(op), now)
        sel == Select(op, source)
        fr == [op |-> op, req |-> req, source |-> source, selected |-> sel, key |-> key]
    IN  /\ obs' = o
        /\ call' = fr
        /\ IF op \in {"options", "crypto"} /\ ~sources["polygon"]
           THEN /\ pc' = "done"
                /\ result' = [kind |-> "raise", data |-> NoData, src |-> "None"]
                /\ UNCHANGED <<cache, cache_hits, cache_misses>>
           ELSE IF lookup /\ lk.found
           THEN /\ pc' = "done"
                /\ result' = [kind |-> "data", data |-> lk.data, src |-> "cache"]
                /\ cache_hits' = cache_hits + 1
                /\ cache' = lk.files
                /\ UNCHANGED cache_misses
           ELSE /\ cache' = IF lookup THEN lk.files ELSE cache
                /\ cache_misses' = IF CountsMiss(op) THEN cache_misses + 1 ELSE cache_misses
                /\ UNCHANGED cache_hits
                /\ IF sel = "raise"
                   THEN /\ pc' = "done"
                        /\ result' = [kind |-> "raise", data |-> NoData, src |-> "None"]
                   ELSE /\ pc' = "feed"
                        /\ result' = NoResult

ApiCall(op, req, source) ==
    /\ pc = "idle"
    /\ ncalls < MaxCalls
    /\ ncalls' = ncalls + 1
    /\ Enter(op, req, source, NewObs(op, source))
    /\ UNCHANGED <<now, sources, connected, enable_caching, call_timestamps,
                   frame, sent, last, nticks>>

GetHistoricalData ==
    \E req \in HistRequests, source \in ForcedSources :
        ApiCall("hist", req, source)

GetLatestPrices ==
    \E req \in LatestRequests, source \in ForcedSources :
        ApiCall("latest", req, source)

GetOptionsChain ==
    \E req \in OptionsRequests : ApiCall("options", req, "None")

GetCryptoData ==
    \E req \in CryptoRequests : ApiCall("crypto", req, "None")

----------------------------------------------------------------------------
(* PolygonDataFeed *)

Pow2(n) == IF n = 0 THEN 1 ELSE IF n = 1 THEN 2 ELSE IF n = 2 THEN 4 ELSE 8

(* An _enforce_rate_limit that never sleeps *)
enforce_rate_limit_nosleep(timestamps, t) ==
    [timestamps |-> SelectSeq(timestamps, LAMBDA ts : InWindow(t, ts)), sleep |-> 0]

(* _enforce_rate_limit: purge timestamps of a minute ago or older; with   *)
(* calls_per_minute or more left, sleep until the oldest is a minute old, *)
(* plus 0.1 s.  Gives the purged list and the time slept.                 *)
enforce_rate_limit(timestamps, t) ==
    LET kept == SelectSeq(timestamps, LAMBDA ts : InWindow(t, ts))
        wait_time == IF Len(kept) >= calls_per_minute
                     THEN WindowSecs * Sec - (t - SeqMin(kept))
                     ELSE 0
    IN  [timestamps |-> kept,
         sleep |-> IF wait_time > 0 THEN wait_time + 1 ELSE 0]

(* Number of _make_request calls one feed method issues *)
Requests(op, req) ==
    IF op \in {"hist", "latest"} THEN Len(req.symbols) ELSE 1

(* A retry loop whose bound is off by one *)
attempt_step_more(resp, attempt) ==
    CASE resp \in {"ok", "empty", "malformed"} ->
            [stamp |-> TRUE, sleep |-> 0, next |-> "json"]
      [] resp = "4xx" ->
            [stamp |-> TRUE, sleep |-> 0, next |-> "none"]
      [] OTHER ->
            [stamp |-> resp # "exc",
             sleep |-> IF resp = "429" THEN CooldownSecs * Sec ELSE Pow2(attempt) * Sec,
             next |-> IF attempt < retries THEN "retry" ELSE "none"]

(* A retry loop that backs off after a 429 as after a 5xx *)
attempt_step_uniform(resp, attempt) ==
    CASE resp \in {"ok", "empty", "malformed"} ->
            [stamp |-> TRUE, sleep |-> 0, next |-> "json"]
      [] resp \in {"429", "5xx"} ->
            [stamp |-> TRUE, sleep |-> Pow2(attempt) * Sec,
             next |-> IF attempt + 1 < retries THEN "retry" ELSE "none"]
      [] resp = "4xx" ->
            [stamp |-> TRUE, sleep |-> 0, next |-> "none"]
      [] OTHER ->
            IF attempt < retries - 1
            THEN [stamp |-> FALSE, sleep |-> Pow2(attempt) * Sec, next |-> "retry"]
            ELSE [stamp |-> FALSE, sleep |-> 0, next |-> "none"]

(* A retry loop in which a 429 does not use up an attempt *)
attempt_step_forever(resp, attempt) ==
    CASE resp \in {"ok", "empty", "malformed"} ->
            [stamp |-> TRUE, sleep |-> 0, next |-> "json"]
      [] resp = "429" ->
            [stamp |-> TRUE, sleep |-> CooldownSecs * Sec, next |-> "retry"]
      [] resp = "5xx" ->
            [stamp |-> TRUE, sleep |-> Pow2(attempt) * Sec,
             next |-> IF attempt + 1 < retries THEN "retry" ELSE "none"]
      [] resp = "4xx" ->
            [stamp |-> TRUE, sleep |-> 0, next |-> "none"]
      [] OTHER ->
            IF attempt < retries - 1
            THEN [stamp |-> FALSE, sleep |-> Pow2(attempt) * Sec, next |-> "retry"]
            ELSE [stamp |-> FALSE, sleep |-> 0, next |-> "none"]

(* One pass of the retry loop of _make_request for an upstream answer:    *)
(* whether the timestamp is recorded, how long the code sleeps, and       *)
(* whether the loop goes on ("retry") or _make_request returns the        *)
(* response ("json") or None ("none").                                    *)
(* A retry loop that treats every error status as a server error *)
attempt_step_anyerror(resp, attempt) ==
    CASE resp \in {"ok", "empty", "malformed"} ->
            [stamp |-> TRUE, sleep |-> 0, next |-> "json"]
      [] resp = "429" ->
            [stamp |-> TRUE, sleep |-> CooldownSecs * Sec,
             next |-> IF attempt + 1 < retries THEN "retry" ELSE "none"]
      [] resp \in {"5xx", "4xx"} ->
            [stamp |-> TRUE, sleep |-> Pow2(attempt) * Sec,
             next |-> IF attempt + 1 < retries THEN "retry" ELSE "none"]
      [] OTHER ->
            IF attempt < retries - 1
            THEN [stamp |-> FALSE, sleep |-> Pow2(attempt) * Sec, next |-> "retry"]
            ELSE [stamp |-> FALSE, sleep |-> 0, next |-> "none"]

attempt_step(resp, attempt) ==
    CASE resp \in {"ok", "empty", "malformed"} ->
            [stamp |-> TRUE, sleep |-> 0, next |-> "json"]
      [] resp = "429" ->
            [stamp |-> TRUE, sleep |-> CooldownSecs * Sec,
             next |-> IF attempt + 1 < retries THEN "retry" ELSE "none"]
      [] resp = "5xx" ->
            [stamp |-> TRUE, sleep |-> Pow2(attempt) * Sec,
             next |-> IF attempt + 1 < retries THEN "retry" ELSE "none"]
      [] resp = "4xx" ->
            [stamp |-> TRUE, sleep |-> 0, next |-> "none"]
      [] OTHER ->
            IF attempt < retries - 1
            THEN [stamp |-> FALSE, sleep |-> Pow2(attempt) * Sec, next |-> "retry"]
            ELSE [stamp |-> FALSE, sleep |-> 0, next |-> "none"]

----------------------------------------------------------------------------
(* The call into the selected feed *)

Event(kind, src) == [kind |-> kind, src |-> src]

(* self.sources[selected_source] is None: the method call on it raises *)
FeedAbsent ==
    /\ pc = "feed"
    /\ ~sources[call.selected]
    /\ pc' = "except"
    /\ UNCHANGED <<now, sources, connected, enable_caching, cache, cache_hits,
                   cache_misses, call_timestamps, call, frame, result, sent,
                   obs, last, ncalls, nticks>>

(* A method of PolygonDataFeed starts; get_historical_data raises when    *)
(* the feed is not connected.                                             *)
PolygonCall ==
    /\ pc = "feed"
    /\ call.selected = "polygon"
    /\ sources["polygon"]
    /\ obs' = [obs EXCEPT !.events = Append(@, Event("query", "polygon"))]
    /\ IF call.op = "hist" /\ ~connected["polygon"]
       THEN /\ pc' = "except"
            /\ frame' = frame
       ELSE /\ pc' = "rate_limit"
            /\ frame' = [method |-> call.op, idx |-> 1, n |-> Requests(call.op, call.req),
                         got |-> {}, attempt |-> 0]
    /\ UNCHANGED <<now, sources, connected, enable_caching, cache, cache_hits,
                   cache_misses, call_timestamps, call, result, sent,
                   last, ncalls, nticks>>

(* A method of AlpacaDataFeed or YahooDataFeed: raises when not           *)
(* connected, otherwise whatever the client library does.                 *)
LibraryCall ==
    /\ pc = "feed"
    /\ call.selected \in {"alpaca", "yahoo"}
    /\ sources[call.selected]
    /\ \E outcome \in Outcomes :
         LET out == IF connected[call.selected] THEN outcome ELSE "raise"
         IN  /\ obs' = [obs EXCEPT !.events = Append(@, Event("query", call.selected))]
             /\ IF out = "raise"
                THEN /\ pc' = "except"
                     /\ frame' = frame
                ELSE /\ pc' = "return"
                     /\ frame' = [method |-> call.op, outcome |-> out,
                                  got |-> 1..Requests(call.op, call.req)]
    /\ UNCHANGED <<now, sources, connected, enable_caching, cache, cache_hits,
                   cache_misses, call_timestamps, call, result, sent,
                   last, ncalls, nticks>>

(* _make_request, first part: the rate-limit check *)
EnforceRateLimit ==
    /\ pc = "rate_limit"
    /\ LET rl == enforce_rate_limit(call_timestamps, now)
       IN  /\ call_timestamps' = rl.timestamps
           /\ now' = now + rl.sleep
           /\ obs' = [obs EXCEPT !.waited = @ + rl.sleep, !.http = 0,
                                 !.checks = @ + 1, !.tries = <<>>]
    /\ pc' = "attempt"
    /\ frame' = [frame EXCEPT !.attempt = 0]
    /\ UNCHANGED <<sources, connected, enable_caching, cache, cache_hits,
                   cache_misses, call, result, sent, last, ncalls, nticks>>

(* _make_request, one pass of the retry loop, and on its end the rest of  *)
(* the feed method's loop body.  The exploration follows a retry loop for *)
(* MaxAttempts passes at most.                                            *)
AttemptOf(answers) ==
    /\ pc = "attempt"
    /\ frame.attempt < MaxAttempts
    /\ \E resp \in answers :
         LET st == attempt_step(resp, frame.attempt)
             got == IF resp = "ok" THEN frame.got \cup {frame.idx} ELSE frame.got
         IN  /\ sent' = Append(SelectSeq(sent, LAMBDA ts : InWindow(now, ts)), now)
             /\ call_timestamps' = IF st.stamp THEN Append(call_timestamps, now)
                                   ELSE call_timestamps
             /\ now' = now + st.sleep
             /\ obs' = [obs EXCEPT !.http = @ + 1, !.slept = @ + st.sleep,
                                   !.tries = Append(@, [resp |-> resp,
                                                        attempt |-> frame.attempt,
                                                        sleep |-> st.sleep])]
             /\ IF st.next = "retry"
                THEN /\ pc' = "attempt"
                     /\ frame' = [frame EXCEPT !.attempt = @ + 1]
                ELSE IF resp = "malformed"
                THEN /\ pc' = "except"
                     /\ frame' = frame
                ELSE IF frame.idx < frame.n
                THEN /\ pc' = "rate_limit"
                     /\ frame' = [frame EXCEPT !.idx = @ + 1, !.got = got]
                ELSE /\ pc' = "return"
                     /\ frame' = [method |-> frame.method,
                                  outcome |-> IF got # {} THEN "data" ELSE "empty",
                                  got |-> got]
    /\ UNCHANGED <<sources, connected, enable_caching, cache, cache_hits,
                   cache_misses, call, result, last, ncalls, nticks>>

Attempt == AttemptOf(ManagerResponses)

----------------------------------------------------------------------------
(* UnifiedDataManager: after the feed call *)

(* The try branch: store a non-empty result, return it.  `writes` are the  *)
(* outcomes the write of the cache file may have.                         *)
FeedReturnOf(writes) ==
    /\ pc = "return"
    /\ LET data == IF frame.outcome = "data"
                   THEN Payload(call.selected, call.op, call.req, now)
                   ELSE NoData
           store == ShouldStore(call.op, frame.outcome)
       IN  /\ \E io \in (IF store THEN writes ELSE {"written"}) :
                 /\ cache' = IF store THEN save_to_cache_io(cache, call.key, data, now, io)
                                       ELSE cache
                 /\ obs' = [obs EXCEPT !.events =
                               IF io = "written"
                               THEN Append(@, Event("return", call.selected))
                               ELSE Append(Append(@, Event("return", call.selected)),
                                           Event("save_failed", call.selected))]
           /\ result' = [kind |-> frame.outcome, data |-> data, src |-> call.selected]
    /\ pc' = "done"
    /\ UNCHANGED <<now, sources, connected, enable_caching, cache_hits,
                   cache_misses, call_timestamps, call, frame, sent,
                   last, ncalls, nticks>>

(* The file system does what it is asked *)
FeedReturn == FeedReturnOf({"written"})

(* The except branch: log, then fail over by calling the method again     *)
(* with the next source, or return an empty frame.                        *)
FeedExcept ==
    /\ pc = "except"
    /\ LET o == [obs EXCEPT !.events = Append(@, Event("raise", call.selected)),
                            !.logged = log_error(@, call.selected)]
           fo == Failover(call.op, call.selected)
       IN  IF fo # "None"
           THEN Enter(call.op, call.req, fo, o)
           ELSE /\ obs' = o
                /\ pc' = "done"
                /\ result' = [kind |-> "empty", data |-> NoData, src |-> "None"]
                /\ UNCHANGED <<cache, cache_hits, cache_misses, call>>
    /\ UNCHANGED <<now, sources, connected, enable_caching, call_timestamps,
                   frame, sent, last, ncalls, nticks>>

(* The API call returns to its caller *)
Return ==
    /\ pc = "done"
    /\ pc' = "idle"
    /\ last' = [op |-> call.op, req |-> call.req, result |-> result, at |-> now]
    /\ call' = NoCall
    /\ frame' = NoFrame
    /\ result' = NoResult
    /\ obs' = NoObs
    /\ UNCHANGED <<now, sources, connected, enable_caching, cache, cache_hits,
                   cache_misses, call_timestamps, sent, ncalls, nticks>>

(* clear_cache() *)
ClearCache ==
    /\ pc = "idle"
    /\ cache' = clear_cache(cache)
    /\ last' = [op |-> "clear", removed |-> {k \in KeySpace : cache[k] # NoFile}]
    /\ UNCHANGED <<now, sources, connected, enable_caching, cache_hits,
                   cache_misses, call_timestamps, pc, call, frame, result,
                   sent, obs, ncalls, nticks>>

(* Time passes between two calls *)
TickOf(advances) ==
    /\ pc = "idle"
    /\ nticks < MaxTicks
    /\ 0 < ncalls
    /\ ncalls < MaxCalls
    /\ \E d \in advances : now' = now + d
    /\ nticks' = nticks + 1
    /\ UNCHANGED <<sources, connected, enable_caching, cache, cache_hits,
                   cache_misses, call_timestamps, pc, call, frame, result,
                   sent, obs, last, ncalls>>

Tick == TickOf(Advances)

----------------------------------------------------------------------------
(* The state after UnifiedDataManager.__init__: each feed is absent,      *)
(* connected, or present but not connected; a present Polygon feed has    *)
(* sent the requests of its connect(), whose send times are `stamps`.     *)
(* Alpaca is absent without credentials or when its construction or       *)
(* connect() raised; Polygon is absent without a key; Yahoo is absent     *)
(* when YahooDataFeed() raised, which it does where yfinance cannot be    *)
(* imported.                                                              *)

Configs ==
    { c \in [sources : [Providers -> BOOLEAN], connected : [Providers -> BOOLEAN]] :
        /\ \A p \in Providers : c.connected[p] => c.sources[p]
        /\ c.sources["yahoo"] => c.connected["yahoo"]
        /\ c.sources["alpaca"] => c.connected["alpaca"] }

Constructed(stamps) ==
    /\ now = 0
    /\ cache = [k \in KeySpace |-> NoFile]
    /\ cache_hits = 0
    /\ cache_misses = 0
    /\ call_timestamps = IF sources["polygon"] THEN stamps ELSE <<>>
    /\ sent = call_timestamps
    /\ pc = "idle"
    /\ call = NoCall
    /\ frame = NoFrame
    /\ result = NoResult
    /\ obs = NoObs
    /\ last = NoLast
    /\ ncalls = 0
    /\ nticks = 0

(* connect() answered at once *)
Init ==
    /\ \E c \in Configs : sources = c.sources /\ connected = c.connected
    /\ enable_caching \in BOOLEAN
    /\ Constructed(<<0>>)

Next ==
    \/ GetHistoricalData
    \/ GetLatestPrices
    \/ GetOptionsChain
    \/ GetCryptoData
    \/ FeedAbsent
    \/ PolygonCall
    \/ LibraryCall
    \/ EnforceRateLimit
    \/ Attempt
    \/ FeedReturn
    \/ FeedExcept
    \/ Return
    \/ ClearCache
    \/ Tick

Spec == Init /\ [][Next]_vars

----------------------------------------------------------------------------
(* Feed-level specification: a manager with Polygon and Yahoo and       *)
(* caching enabled; the upstream may give any answer to each HTTP         *)
(* request, connect() included: it was answered at once, or by two 5xx    *)
(* (sent 3 s and 2 s before) and then a 200.                              *)

ConnectHistories == { <<0>>, <<0 - 3 * Sec, 0 - 2 * Sec, 0>> }

AttemptAny == AttemptOf(Responses)

GetHistoricalDataAuto ==
    \E req \in HistRequests : ApiCall("hist", req, "None")

FeedAdvances == {WindowSecs * Sec, HistMaxAge + 1}

TickFeed == TickOf(FeedAdvances)

InitFeed ==
    /\ sources = [p \in Providers |-> p # "alpaca"]
    /\ connected = sources
    /\ enable_caching = TRUE
    /\ \E stamps \in ConnectHistories : Constructed(stamps)

NextFeed ==
    \/ GetHistoricalDataAuto
    \/ PolygonCall
    \/ LibraryCall
    \/ EnforceRateLimit
    \/ AttemptAny
    \/ FeedReturn
    \/ FeedExcept
    \/ Return
    \/ TickFeed

SpecFeed == InitFeed /\ [][NextFeed]_vars

----------------------------------------------------------------------------
(* Restart specification: a manager with caching enabled whose process    *)
(* is restarted between two calls: a new UnifiedDataManager is            *)
(* constructed with the same arguments on the same cache_dir.  The feeds  *)
(* connect anew, so Alpaca, Yahoo and Polygon's connection may come up    *)
(* differently; the files of cache_dir stay.                              *)

(* A makedirs that leaves an empty directory *)
makedirs_fresh(files) == [k \in DOMAIN files |-> NoFile]

(* os.makedirs(cache_dir, exist_ok=True): an existing directory and its   *)
(* files are left as they are.                                            *)
makedirs(files) == files

Restart ==
    /\ pc = "idle"
    /\ 0 < ncalls
    /\ ncalls < MaxCalls
    /\ last.op # "restart"
    /\ \E c \in Configs :
          /\ c.sources["polygon"] = sources["polygon"]
          /\ sources' = c.sources
          /\ connected' = c.connected
          /\ call_timestamps' = IF c.sources["polygon"] THEN <<now>> ELSE <<>>
          /\ sent' = IF c.sources["polygon"]
                     THEN Append(SelectSeq(sent, LAMBDA ts : InWindow(now, ts)), now)
                     ELSE sent
    /\ cache' = IF enable_caching THEN makedirs(cache) ELSE cache
    /\ cache_hits' = 0
    /\ cache_misses' = 0
    /\ last' = [op |-> "restart", entries |-> cache]
    /\ UNCHANGED <<now, enable_caching, pc, call, frame, result, obs, ncalls, nticks>>

InitRestart ==
    /\ \E c \in Configs : sources = c.sources /\ connected = c.connected
    /\ enable_caching = TRUE
    /\ Constructed(<<0>>)

NextRestart ==
    \/ GetHistoricalData
    \/ GetOptionsChain
    \/ GetCryptoData
    \/ FeedAbsent
    \/ PolygonCall
    \/ LibraryCall
    \/ EnforceRateLimit
    \/ Attempt
    \/ FeedReturn
    \/ FeedExcept
    \/ Return
    \/ Restart
    \/ Tick

SpecRestart == InitRestart /\ [][NextRestart]_vars

----------------------------------------------------------------------------
(* Fault specification: a manager with caching enabled on a cache_dir     *)
(* whose files may get damaged between calls and whose writes may fail.   *)

FeedReturnFaulty == FeedReturnOf(Writes)

(* A cache file is damaged or made unreadable behind the manager's back *)
CorruptFile ==
    /\ pc = "idle"
    /\ \E k \in KeySpace :
          /\ cache[k] \notin {NoFile, Corrupt}
          /\ cache' = [cache EXCEPT ![k] = Corrupt]
    /\ UNCHANGED <<now, sources, connected, enable_caching, cache_hits,
                   cache_misses, call_timestamps, pc, call, frame, result,
                   sent, obs, last, ncalls, nticks>>

InitFaults ==
    /\ \E c \in Configs : sources = c.sources /\ connected = c.connected
    /\ enable_caching = TRUE
    /\ Constructed(<<0>>)

NextFaults ==
    \/ GetHistoricalData
    \/ GetOptionsChain
    \/ GetCryptoData
    \/ FeedAbsent
    \/ PolygonCall
    \/ LibraryCall
    \/ EnforceRateLimit
    \/ Attempt
    \/ FeedReturnFaulty
    \/ FeedExcept
    \/ Return
    \/ CorruptFile
    \/ Tick

SpecFaults == InitFaults /\ [][NextFaults]_vars

----------------------------------------------------------------------------
(* Progress specification: get_historical_data and get_latest_prices of   *)
(* a manager with Alpaca and Yahoo, with or without Polygon, caching      *)
(* disabled, the upstream free to give any answer to each HTTP request.   *)
(* A running call keeps running: its thread is scheduled, each time.sleep *)
(* ends, each HTTP request is answered or times out (10 s), each library  *)
(* call comes back.                                                       *)

RunningCallStep ==
    \/ FeedAbsent
    \/ PolygonCall
    \/ LibraryCall
    \/ EnforceRateLimit
    \/ AttemptAny
    \/ FeedReturn
    \/ FeedExcept

InitLive ==
    /\ \E c \in Configs :
          /\ c.sources["alpaca"]
          /\ c.sources["yahoo"]
          /\ c.connected = c.sources
          /\ sources = c.sources
          /\ connected = c.connected
    /\ enable_caching = FALSE
    /\ \E stamps \in ConnectHistories : Constructed(stamps)

NextLive ==
    \/ GetHistoricalData
    \/ GetLatestPrices
    \/ FeedAbsent
    \/ PolygonCall
    \/ LibraryCall
    \/ EnforceRateLimit
    \/ AttemptAny
    \/ FeedReturn
    \/ FeedExcept
    \/ Return

SpecLive == InitLive /\ [][NextLive]_vars /\ WF_vars(RunningCallStep)

----------------------------------------------------------------------------
(* Concurrent specification: two threads call _make_request on one        *)
(* PolygonDataFeed.  The code takes no lock, so a thread may be preempted *)
(* between any two statements, and between the evaluation of the list     *)
(* comprehension of _enforce_rate_limit and the assignment of its result. *)
(* Here pc and frame hold one entry per thread, obs the timestamps ever   *)
(* recorded; every request is answered 200 a tenth of a second after it   *)
(* was sent.                                                              *)

Threads == {"t1", "t2"}

ThreadIdle == [calls |-> 0, now |-> 0, kept |-> <<>>, wake |-> 0]

OthersUnchanged ==
    UNCHANGED <<sources, connected, enable_caching, cache, cache_hits,
                cache_misses, call, result, last, ncalls, nticks>>

(* A thread enters _make_request *)
MakeRequest(t) ==
    /\ pc[t] = "idle"
    /\ frame[t].calls < MaxCalls
    /\ pc' = [pc EXCEPT ![t] = "purge"]
    /\ frame' = [frame EXCEPT ![t].calls = @ + 1]
    /\ UNCHANGED <<now, call_timestamps, sent, obs>>
    /\ OthersUnchanged

(* _enforce_rate_limit: now = time.time() and the list comprehension *)
Purge(t) ==
    /\ pc[t] = "purge"
    /\ frame' = [frame EXCEPT ![t].now = now,
                              ![t].kept = SelectSeq(call_timestamps, LAMBDA ts : InWindow(now, ts))]
    /\ pc' = [pc EXCEPT ![t] = "assign"]
    /\ UNCHANGED <<now, call_timestamps, sent, obs>>
    /\ OthersUnchanged

(* _enforce_rate_limit: self.call_timestamps = <the new list> *)
AssignPurged(t) ==
    /\ pc[t] = "assign"
    /\ call_timestamps' = frame[t].kept
    /\ pc' = [pc EXCEPT ![t] = "check"]
    /\ UNCHANGED <<now, frame, sent, obs>>
    /\ OthersUnchanged

(* _enforce_rate_limit: the length test and the wait time *)
CheckLimit(t) ==
    /\ pc[t] = "check"
    /\ LET full == Len(call_timestamps) >= calls_per_minute
           wait_time == IF full
                        THEN WindowSecs * Sec - (frame[t].now - SeqMin(call_timestamps))
                        ELSE 0
       IN  IF wait_time > 0
           THEN /\ pc' = [pc EXCEPT ![t] = "sleep"]
                /\ frame' = [frame EXCEPT ![t].wake = now + wait_time + 1]
           ELSE /\ pc' = [pc EXCEPT ![t] = "get"]
                /\ frame' = frame
    /\ UNCHANGED <<now, call_timestamps, sent, obs>>
    /\ OthersUnchanged

(* time.sleep(wait_time + 0.1) ends *)
WakeUp(t) ==
    /\ pc[t] = "sleep"
    /\ now' = IF now < frame[t].wake THEN frame[t].wake ELSE now
    /\ pc' = [pc EXCEPT ![t] = "get"]
    /\ UNCHANGED <<call_timestamps, frame, sent, obs>>
    /\ OthersUnchanged

(* self.session.get(...): the request leaves *)
SessionGet(t) ==
    /\ pc[t] = "get"
    /\ sent' = Append(SelectSeq(sent, LAMBDA ts : InWindow(now, ts)), now)
    /\ now' = now + 1
    /\ pc' = [pc EXCEPT ![t] = "stamp"]
    /\ UNCHANGED <<call_timestamps, frame, obs>>
    /\ OthersUnchanged

(* self.call_timestamps.append(time.time()); status 200, return *)
RecordTimestamp(t) ==
    /\ pc[t] = "stamp"
    /\ call_timestamps' = Append(call_timestamps, now)
    /\ obs' = [obs EXCEPT !.recorded = Append(@, now)]
    /\ now' = now + 1
    /\ pc' = [pc EXCEPT ![t] = "idle"]
    /\ UNCHANGED <<frame, sent>>
    /\ OthersUnchanged

InitConc ==
    /\ sources = [p \in Providers |-> p = "polygon"]
    /\ connected = sources
    /\ enable_caching = FALSE
    /\ now = 0
    /\ cache = [k \in KeySpace |-> NoFile]
    /\ cache_hits = 0
    /\ cache_misses = 0
    /\ \E stamps \in ConnectHistories :
          /\ call_timestamps = stamps
          /\ sent = stamps
          /\ obs = [recorded |-> stamps]
    /\ pc = [t \in Threads |-> "idle"]
    /\ frame = [t \in Threads |-> ThreadIdle]
    /\ call = NoCall
    /\ result = NoResult
    /\ last = NoLast
    /\ ncalls = 0
    /\ nticks = 0

NextConc ==
    \E t \in Threads :
        \/ MakeRequest(t)
        \/ Purge(t)
        \/ AssignPurged(t)
        \/ CheckLimit(t)
        \/ WakeUp(t)
        \/ SessionGet(t)
        \/ RecordTimestamp(t)

SpecConc == InitConc /\ [][NextConc]_vars

----------------------------------------------------------------------------
(* Cache-race specification: two threads (or two processes on one         *)
(* cache_dir) run the cached path of get_historical_data for the same     *)
(* key: _load_from_cache, on a miss the fetch, then _save_to_cache.  The  *)
(* code takes no lock and writes the file in place: open(path, "wb")      *)
(* truncates it, pickle.dump fills it in one write or, for a payload      *)
(* larger than the file buffer, in several (here two parts: the first     *)
(* with the timestamp, the rest).  A new instance starts on a cache_dir   *)
(* that holds an entry written at time 0, which is just within its        *)
(* maximum age or just past it.  Here pc and frame hold one entry per     *)
(* thread, and obs the order in which stores completed and what each      *)
(* os.remove found.                                                       *)

RaceKey == CHOOSE k \in {CacheKey("hist", r) : r \in HistRequests} : TRUE

NoPart == [w |-> "none", ts |-> 0]

(* A file written in place: its first and second part *)
FileOf(head, body) == [kind |-> "file", head |-> head, body |-> body]

(* The file as a completed dump by writer w at time t leaves it *)
Entry(w, t) == FileOf([w |-> w, ts |-> t], [w |-> w, ts |-> t])

(* pickle.load succeeds on a file whose parts belong to one dump *)
Loadable(file) ==
    /\ file # NoFile
    /\ file.head.w # "none"
    /\ file.head = file.body

RaceIdle == [inspected |-> NoFile, off |-> 0]

RaceUnchanged ==
    UNCHANGED <<now, sources, connected, enable_caching, cache_hits, cache_misses,
                call_timestamps, call, result, sent, last, ncalls, nticks>>

(* get_historical_data is called; _load_from_cache tests os.path.exists *)
RaceExists(t) ==
    /\ pc[t] = "idle"
    /\ pc' = [pc EXCEPT ![t] = IF cache[RaceKey] = NoFile THEN "fetch" ELSE "load"]
    /\ UNCHANGED <<cache, frame, obs>>
    /\ RaceUnchanged

(* _load_from_cache: open, pickle.load and the age test; an exception     *)
(* (file gone, not loadable) returns None.                                *)
RaceLoad(t) ==
    /\ pc[t] = "load"
    /\ LET file == cache[RaceKey]
       IN  IF ~Loadable(file)
           THEN /\ pc' = [pc EXCEPT ![t] = "fetch"]
                /\ frame' = frame
           ELSE IF now - file.head.ts <= HistMaxAge
           THEN /\ pc' = [pc EXCEPT ![t] = "done"]
                /\ frame' = [frame EXCEPT ![t].inspected = file]
           ELSE /\ pc' = [pc EXCEPT ![t] = "remove"]
                /\ frame' = [frame EXCEPT ![t].inspected = file]
    /\ UNCHANGED <<cache, obs>>
    /\ RaceUnchanged

(* _load_from_cache: os.remove(cache_path) of the expired entry; on a     *)
(* missing file it raises, which the except swallows.                     *)
RaceRemove(t) ==
    /\ pc[t] = "remove"
    /\ cache' = [cache EXCEPT ![RaceKey] = NoFile]
    /\ obs' = IF cache[RaceKey] = NoFile THEN obs
              ELSE [obs EXCEPT !.removed = @ \cup {[inspected |-> frame[t].inspected,
                                                      found |-> cache[RaceKey]]}]
    /\ pc' = [pc EXCEPT ![t] = "fetch"]
    /\ UNCHANGED frame
    /\ RaceUnchanged

(* The miss is counted elsewhere; the feed returns data; _save_to_cache   *)
(* opens the file for writing, which truncates it.                        *)
RaceOpen(t) ==
    /\ pc[t] = "fetch"
    /\ cache' = [cache EXCEPT ![RaceKey] = FileOf(NoPart, NoPart)]
    /\ pc' = [pc EXCEPT ![t] = "dump"]
    /\ frame' = [frame EXCEPT ![t].off = 0]
    /\ UNCHANGED obs
    /\ RaceUnchanged

(* What a write at this thread's file offset leaves in the file; a file   *)
(* removed meanwhile stays removed (the writes go to the unlinked file).  *)
WritePart(t, file, part) ==
    IF file = NoFile THEN NoFile
    ELSE IF part = "head" THEN [file EXCEPT !.head = [w |-> t, ts |-> now]]
    ELSE [file EXCEPT !.body = [w |-> t, ts |-> now]]

(* pickle.dump: the whole pickle in one write, then close *)
RaceDumpWhole(t) ==
    /\ pc[t] = "dump"
    /\ frame[t].off = 0
    /\ cache' = [cache EXCEPT ![RaceKey] = WritePart(t, WritePart(t, @, "head"), "body")]
    /\ obs' = [obs EXCEPT !.closed = Append(@, t)]
    /\ pc' = [pc EXCEPT ![t] = "done"]
    /\ UNCHANGED frame
    /\ RaceUnchanged

(* pickle.dump of a large payload: the first write *)
RaceDumpFirst(t) ==
    /\ pc[t] = "dump"
    /\ frame[t].off = 0
    /\ cache' = [cache EXCEPT ![RaceKey] = WritePart(t, @, "head")]
    /\ frame' = [frame EXCEPT ![t].off = 1]
    /\ UNCHANGED <<pc, obs>>
    /\ RaceUnchanged

(* pickle.dump of a large payload: the last write, then close *)
RaceDumpRest(t) ==
    /\ pc[t] = "dump"
    /\ frame[t].off = 1
    /\ cache' = [cache EXCEPT ![RaceKey] = WritePart(t, @, "body")]
    /\ obs' = [obs EXCEPT !.closed = Append(@, t)]
    /\ pc' = [pc EXCEPT ![t] = "done"]
    /\ UNCHANGED frame
    /\ RaceUnchanged

(* The thread calls get_historical_data again, up to MaxCalls times *)
RaceAgain(t) ==
    /\ pc[t] = "done"
    /\ Len(SelectSeq(obs.calls, LAMBDA c : c = t)) + 1 < MaxCalls
    /\ obs' = [obs EXCEPT !.calls = Append(@, t)]
    /\ pc' = [pc EXCEPT ![t] = "idle"]
    /\ frame' = [frame EXCEPT ![t] = RaceIdle]
    /\ UNCHANGED cache
    /\ RaceUnchanged

InitRace ==
    /\ sources = [p \in Providers |-> p = "yahoo"]
    /\ connected = sources
    /\ enable_caching = TRUE
    /\ now \in {HistMaxAge, HistMaxAge + 1}
    /\ cache = [k \in KeySpace |-> IF k = RaceKey THEN Entry("old", 0) ELSE NoFile]
    /\ cache_hits = 0
    /\ cache_misses = 0
    /\ call_timestamps = <<>>
    /\ sent = <<>>
    /\ obs = [closed |-> <<>>, removed |-> {}, calls |-> <<>>]
    /\ pc = [t \in Threads |-> "idle"]
    /\ frame = [t \in Threads |-> RaceIdle]
    /\ call = NoCall
    /\ result = NoResult
    /\ last = NoLast
    /\ ncalls = 0
    /\ nticks = 0

NextRace ==
    \E t \in Threads :
        \/ RaceExists(t)
        \/ RaceLoad(t)
        \/ RaceRemove(t)
        \/ RaceOpen(t)
        \/ RaceDumpWhole(t)
        \/ RaceDumpFirst(t)
        \/ RaceDumpRest(t)
        \/ RaceAgain(t)

SpecRace == InitRace /\ [][NextRace]_vars

----------------------------------------------------------------------------
(* Socket specification: one PolygonWebSocketClient.  A caller thread     *)
(* runs connect() and disconnect(); every connect() builds a new          *)
(* WebSocketApp and starts a background thread that runs it and invokes   *)
(* the client's callbacks.  Here frame holds the client object (ws is the *)
(* number of the current WebSocketApp, 0 for None), pc the position of    *)
(* the caller and of each app's background thread, call the server        *)
(* messages each app has still to dispatch, ncalls the connect() calls.   *)

Apps == 1..MaxConnects

(* The status messages the server sends: its greeting and its answer to   *)
(* the auth action                                                        *)
AuthReplies == {"auth_success", "auth_failed"}

SocketUnchanged ==
    UNCHANGED <<now, sources, connected, enable_caching, cache, cache_hits,
                cache_misses, call_timestamps, result, sent, obs, nticks>>

(* ws.close(): the run loop of a running app is told to stop *)
ws_close(threads, ws) ==
    IF ws \in Apps /\ threads[ws] \in {"connecting", "open"}
    THEN [threads EXCEPT ![ws] = "closing"]
    ELSE threads

(* disconnect(): a no-op without a WebSocketApp *)
disconnect(client) ==
    IF client.ws # 0
    THEN [client EXCEPT !.connected = FALSE, !.authenticated = FALSE]
    ELSE client

(* connect(), up to its wait loop: a new app and its thread *)
ConnectStart ==
    /\ pc.caller = "idle"
    /\ ncalls < MaxConnects
    /\ ncalls' = ncalls + 1
    /\ frame' = [frame EXCEPT !.ws = ncalls + 1]
    /\ pc' = [caller |-> "waiting", threads |-> [pc.threads EXCEPT ![ncalls + 1] = "connecting"]]
    /\ UNCHANGED <<call, last>>
    /\ SocketUnchanged

(* connect(), end of the wait loop: self.connected was seen True, or the  *)
(* 10 seconds are over                                                    *)
ConnectReturn ==
    /\ pc.caller = "waiting"
    /\ pc' = [pc EXCEPT !.caller = "idle"]
    /\ last' = [op |-> "connect", returned |-> frame.connected]
    /\ UNCHANGED <<frame, call, ncalls>>
    /\ SocketUnchanged

Disconnect ==
    /\ pc.caller = "idle"
    /\ last.op # "disconnect"
    /\ pc' = [pc EXCEPT !.threads = ws_close(@, frame.ws)]
    /\ frame' = disconnect(frame)
    /\ last' = [op |-> "disconnect"]
    /\ UNCHANGED <<call, ncalls>>
    /\ SocketUnchanged

(* _on_open of app a: the flag, then the auth action, which the server    *)
(* answers after its greeting                                             *)
OnOpen(a) ==
    /\ pc.threads[a] = "connecting"
    /\ pc' = [pc EXCEPT !.threads[a] = "open"]
    /\ frame' = [frame EXCEPT !.connected = TRUE]
    /\ \E reply \in AuthReplies : call' = [call EXCEPT ![a] = <<"connected", reply>>]
    /\ UNCHANGED <<last, ncalls>>
    /\ SocketUnchanged

(* _on_message / _process_message of app a for one status message *)
OnMessage(a) ==
    /\ pc.threads[a] = "open"
    /\ Len(call[a]) > 0
    /\ call' = [call EXCEPT ![a] = Tail(@)]
    /\ LET status == Head(call[a])
       IN  IF status = "auth_success"
           THEN /\ frame' = [frame EXCEPT !.authenticated = TRUE]
                /\ pc' = pc
           ELSE IF status = "auth_failed"
           THEN /\ frame' = disconnect(frame)
                /\ pc' = [pc EXCEPT !.threads = ws_close(@, frame.ws)]
           ELSE /\ frame' = frame
                /\ pc' = pc
    /\ UNCHANGED <<last, ncalls>>
    /\ SocketUnchanged

(* _on_close of app a: its run loop ended, because close() was called,    *)
(* the server closed the connection or it could not be opened             *)
OnClose(a) ==
    /\ pc.threads[a] \in {"connecting", "open", "closing"}
    /\ pc' = [pc EXCEPT !.threads[a] = "closed"]
    /\ frame' = [frame EXCEPT !.connected = FALSE, !.authenticated = FALSE]
    /\ UNCHANGED <<call, last, ncalls>>
    /\ SocketUnchanged

(* _run_forever of app a: ws.run_forever() raised *)
RunForeverFails(a) ==
    /\ pc.threads[a] \in {"connecting", "open", "closing"}
    /\ pc' = [pc EXCEPT !.threads[a] = "failed"]
    /\ frame' = [frame EXCEPT !.connected = FALSE]
    /\ UNCHANGED <<call, last, ncalls>>
    /\ SocketUnchanged

(* The client after __init__ *)
InitSocket ==
    /\ frame = [ws |-> 0, connected |-> FALSE, authenticated |-> FALSE]
    /\ pc = [caller |-> "idle", threads |-> [a \in Apps |-> "none"]]
    /\ call = [a \in Apps |-> <<>>]
    /\ ncalls = 0
    /\ last = NoLast
    /\ now = 0
    /\ sources = [p \in Providers |-> FALSE]
    /\ connected = sources
    /\ enable_caching = FALSE
    /\ cache = [k \in KeySpace |-> NoFile]
    /\ cache_hits = 0
    /\ cache_misses = 0
    /\ call_timestamps = <<>>
    /\ sent = <<>>
    /\ obs = NoObs
    /\ result = NoResult
    /\ nticks = 0

NextSocket ==
    \/ ConnectStart
    \/ ConnectReturn
    \/ Disconnect
    \/ \E a \in Apps :
          \/ OnOpen(a)
          \/ OnMessage(a)
          \/ OnClose(a)
          \/ RunForeverFails(a)

SpecSocket == InitSocket /\ [][NextSocket]_vars

----------------------------------------------------------------------------
(* Key-level specification: a manager with Yahoo, with or without a       *)
(* connected Polygon feed, and caching enabled, asked for the bars of     *)
(* the same symbols listed in either order.                               *)

GetHistoricalDataOrdered ==
    \E req \in OrderRequests : ApiCall("hist", req, "None")

InitKeys ==
    /\ \E c \in Configs :
          /\ c.sources["yahoo"]
          /\ ~c.sources["alpaca"]
          /\ c.sources["polygon"] = c.connected["polygon"]
          /\ sources = c.sources
          /\ connected = c.connected
    /\ enable_caching = TRUE
    /\ Constructed(<<0>>)

NextKeys ==
    \/ GetHistoricalDataOrdered
    \/ PolygonCall
    \/ LibraryCall
    \/ EnforceRateLimit
    \/ Attempt
    \/ FeedReturn
    \/ FeedExcept
    \/ Return
    \/ TickFeed

SpecKeys == InitKeys /\ [][NextKeys]_vars

----------------------------------------------------------------------------
(* Intraday specification: the manager of the key-level specification,    *)
(* asked for one-minute bars, with a minute or just over a minute         *)
(* passing between two calls.                                             *)

GetHistoricalDataIntraday ==
    \E req \in IntradayRequests : ApiCall("hist", req, "None")

IntradayAdvances == {IntradayMaxAge, IntradayMaxAge + 1}

TickIntraday == TickOf(IntradayAdvances)

NextIntraday ==
    \/ GetHistoricalDataIntraday
    \/ PolygonCall
    \/ LibraryCall
    \/ EnforceRateLimit
    \/ Attempt
    \/ FeedReturn
    \/ FeedExcept
    \/ Return
    \/ TickIntraday

SpecIntraday == InitKeys /\ [][NextIntraday]_vars

----------------------------------------------------------------------------
(* Properties *)

InCall == pc # "idle"

Done == pc = "done"

(* The providers of the feed calls made for the running API call *)
Queried == SelectSeq(obs.events, LAMBDA e : e.kind = "query")

Raised == SelectSeq(obs.events, LAMBDA e : e.kind = "raise")

Returned == SelectSeq(obs.events, LAMBDA e : e.kind = "return")

(* Priority order of the providers per operation, 1 first *)
Rank(op, src) ==
    IF op = "hist"
    THEN (IF src = "polygon" THEN 1 ELSE IF src = "yahoo" THEN 2 ELSE 3)
    ELSE (IF src = "alpaca" THEN 1 ELSE IF src = "polygon" THEN 2 ELSE 3)

Candidates(op) ==
    IF op = "hist" THEN {"polygon", "yahoo"} ELSE {"alpaca", "polygon", "yahoo"}

(* The API call is over and every provider tried for it raised *)
AllRaised ==
    /\ Done
    /\ result.src # "cache"
    /\ Len(Raised) > 0
    /\ Len(Returned) = 0

(* The API call is over without data: every provider tried raised or      *)
(* came back empty-handed.                                                *)
FetchFailed ==
    /\ Done
    /\ result.kind \in {"empty", "raise"}

(* Number of HTTP requests in the 60 s up to the latest one *)
SentInWindow ==
    IF Len(sent) = 0 THEN 0
    ELSE Cardinality({i \in 1..Len(sent) : InWindow(sent[Len(sent)], sent[i])})

(* C1: a cache lookup that serves an entry serves one whose age, now -    *)
(* timestamp, is at most the maximum age passed to that lookup.           *)
C1_NeverServesExpired ==
    (Done /\ result.src = "cache") =>
        /\ cache[call.key] # NoFile
        /\ cache[call.key].data = result.data
        /\ now - cache[call.key].timestamp <= MaxAge(call.op)

(* C1 witness: an entry served at exactly its maximum age *)
C1_Witness ==
    /\ Done
    /\ result.src = "cache"
    /\ now - cache[call.key].timestamp = MaxAge(call.op)

(* C2, as claimed: the HTTP requests sent in any trailing 60-second       *)
(* window never number more than calls_per_minute.                        *)
C2_WindowNeverExceedsLimit ==
    SentInWindow <= calls_per_minute

(* C3: for a request without a forced source the providers are queried    *)
(* in priority order, starting with the first configured one, and none    *)
(* is queried after one has returned.                                     *)
C3_PriorityOrderStopsAtSuccess ==
    (InCall /\ obs.op \in {"hist", "latest"} /\ obs.source = "None") =>
        /\ \A i, j \in 1..Len(Queried) :
              i < j => Rank(obs.op, Queried[i].src) < Rank(obs.op, Queried[j].src)
        /\ Len(Queried) > 0 =>
              \A p \in Candidates(obs.op) :
                 Rank(obs.op, p) < Rank(obs.op, Queried[1].src) => ~sources[p]
        /\ \A i, j \in 1..Len(obs.events) :
              (i < j /\ obs.events[i].kind = "return") => obs.events[j].kind # "query"

(* C3 witness: Polygon raised, then Yahoo was queried and returned *)
C3_Witness ==
    /\ Done
    /\ obs.op = "hist"
    /\ obs.source = "None"
    /\ Len(Queried) = 2
    /\ Queried[1].src = "polygon"
    /\ Queried[2].src = "yahoo"
    /\ Len(Returned) = 1

C5_FailedFetchWritesNothing ==
    FetchFailed =>
        \A k \in KeySpace :
            \/ cache[k] = obs.cache0[k]
            \/ (cache[k] = NoFile /\ k = call.key)

(* C5 witness: a failed fetch of a cached operation with caching enabled, *)
(* after a provider was asked, with another entry in the cache.           *)
C5_Witness ==
    /\ FetchFailed
    /\ enable_caching
    /\ Cached(obs.op)
    /\ Len(Queried) > 0
    /\ \E k \in KeySpace : cache[k] # NoFile

(* The previous API call was the same request as the running one, a       *)
(* cached operation, and is not older than the operation's maximum age    *)
(* (counted from the fetch of its payload).                               *)
RepeatedWithinTTL ==
    /\ Done
    /\ enable_caching
    /\ Cached(obs.op)
    /\ last.op = obs.op
    /\ last.req = call.req
    /\ last.result.kind \in {"data", "empty"}
    /\ now - (IF last.result.kind = "data" THEN last.result.data.at ELSE last.at)
          <= MaxAge(obs.op)

ServedFromCacheAsBefore ==
    /\ result.src = "cache"
    /\ result.data = last.result.data
    /\ Len(Queried) = 0
    /\ cache_hits = obs.hits0 + 1

(* C6, as claimed: the same request issued twice within the TTL window    *)
(* is served the second time from the cache, with the first payload, no   *)
(* provider queried and cache_hits one higher.                            *)
C6_SecondCallIsHit ==
    RepeatedWithinTTL => ServedFromCacheAsBefore

(* C6, amended: the same, when the first call returned a non-empty        *)
(* payload.                                                               *)
C6_SecondCallIsHitAfterData ==
    (RepeatedWithinTTL /\ last.result.kind = "data") => ServedFromCacheAsBefore

(* C6 witness: a second call served from the cache after a fetch *)
C6_Witness ==
    /\ RepeatedWithinTTL
    /\ last.result.kind = "data"
    /\ last.result.src # "cache"
    /\ result.src = "cache"

(* C7: one _make_request sends at most `retries` HTTP requests *)
C7_AtMostRetriesRequests ==
    InCall => obs.http <= retries

(* C7 witness: a _make_request that has sent `retries` requests and is    *)
(* over.                                                                  *)
C7_Witness ==
    /\ InCall
    /\ pc # "attempt"
    /\ obs.http = retries

(* get_historical_data without a forced source, by a manager with a       *)
(* connected Polygon feed and Yahoo, started when Polygon's window held   *)
(* calls_per_minute timestamps, and not served from the cache.            *)
StartedWithFullWindow ==
    /\ InCall
    /\ obs.op = "hist"
    /\ obs.source = "None"
    /\ obs.full0
    /\ sources["polygon"]
    /\ connected["polygon"]
    /\ sources["yahoo"]
    /\ result.kind = "none" \/ result.src # "cache"

(* C8, as claimed: with the first provider's window full the call does    *)
(* not wait for it and returns the second provider's data.                *)
C8_FailsOverWithoutWaiting ==
    StartedWithFullWindow =>
        /\ obs.waited = 0
        /\ (Done /\ result.kind = "data") => result.src = "yahoo"

(* C8, amended: with the first provider's window full the call sleeps in  *)
(* _enforce_rate_limit until the oldest timestamp of the window is 60 s   *)
(* and 0.1 s old, then queries the first provider; the second provider's  *)
(* data is returned only when the first provider's call raised.           *)
C8_WaitsThenQueriesFirst ==
    StartedWithFullWindow =>
        /\ obs.checks > 0 => obs.waited > 0
        /\ (pc = "attempt" /\ obs.checks = 1 /\ obs.http = 0) =>
              now - obs.oldest0 = WindowSecs * Sec + 1
        /\ Len(Queried) > 0 => Queried[1].src = "polygon"
        /\ (Done /\ result.src = "yahoo") =>
              (Len(Raised) > 0 /\ Raised[1].src = "polygon")

(* C8 witness: such a call that waited and returned Polygon's data *)
C8_Witness ==
    /\ StartedWithFullWindow
    /\ Done
    /\ obs.waited > 0
    /\ result.kind = "data"
    /\ result.src = "polygon"

(* C9, as claimed: a get_historical_data call not served from the cache   *)
(* raises cache_misses by exactly 1, failover or not.                     *)
C9_OneMissPerRequest ==
    (Done /\ obs.op = "hist" /\ result.src # "cache") =>
        cache_misses = obs.misses0 + 1

(* C10, as claimed: right after clear_cache() the statistics report no    *)
(* hit and no miss.                                                       *)
C10_ClearResetsCounters ==
    (pc = "idle" /\ last.op = "clear") =>
        /\ get_cache_stats(cache_hits, cache_misses).cache_hits = 0
        /\ get_cache_stats(cache_hits, cache_misses).cache_misses = 0

(* The running call is the first one after a clear_cache(), of a cached   *)
(* operation with caching enabled, and it got as far as its lookup.       *)
FirstLookupAfterClear ==
    /\ InCall
    /\ last.op = "clear"
    /\ enable_caching
    /\ Cached(obs.op)
    /\ ~(obs.op \in {"options", "crypto"} /\ ~sources["polygon"])

(* C11: after clear_cache() no entry remains: the next lookup of any key  *)
(* is a miss (not served from the cache, cache_hits unchanged,            *)
(* cache_misses raised) and, where a provider is configured for the       *)
(* operation, a provider is queried.                                      *)
C11_ClearLeavesNoEntry ==
    /\ (pc = "idle" /\ last.op = "clear") => \A k \in KeySpace : cache[k] = NoFile
    /\ FirstLookupAfterClear =>
          /\ result.kind # "none" => result.src # "cache"
          /\ cache_hits = obs.hits0
          /\ cache_misses > obs.misses0
          /\ (Done /\ \E p \in Candidates(obs.op) : sources[p]) => Len(Queried) > 0

(* C11 witness: the key's entry was removed by clear_cache() and the      *)
(* same request then fetched from a provider.                             *)
C11_Witness ==
    /\ FirstLookupAfterClear
    /\ Done
    /\ call.key \in last.removed
    /\ Len(Queried) > 0
    /\ result.kind = "data"

(* The symbols of a request, as a set *)
SymbolSet(req) == {req.symbols[i] : i \in 1..Len(req.symbols)}

(* The running get_historical_data asks for the same set of symbols, the  *)
(* same start, end and timeframe as the previous call, whose payload is   *)
(* not older than the maximum age.                                        *)
SameLogicalRequestAgain ==
    /\ Done
    /\ enable_caching
    /\ obs.op = "hist"
    /\ last.op = "hist"
    /\ SymbolSet(last.req) = SymbolSet(call.req)
    /\ last.req.start = call.req.start
    /\ last.req.end = call.req.end
    /\ last.req.timeframe = call.req.timeframe
    /\ last.result.kind = "data"
    /\ now - last.result.data.at <= MaxAge("hist")

(* C12, as claimed: two get_historical_data requests with the same set of *)
(* symbols, start, end and timeframe have the same cache key whatever the *)
(* order of the symbols, and the second is a hit on the first's entry.    *)
C12_KeyIgnoresSymbolOrder ==
    SameLogicalRequestAgain =>
        /\ CacheKey("hist", last.req) = call.key
        /\ result.src = "cache"
        /\ result.data = last.result.data

(* The running call is of a cached operation with caching enabled, and    *)
(* when it started the entry of its key was older than the operation's    *)
(* maximum age.                                                           *)
StartedWithExpiredEntry ==
    /\ InCall
    /\ enable_caching
    /\ Cached(obs.op)
    /\ obs.cache0[call.key] # NoFile
    /\ obs.t0 - obs.cache0[call.key].timestamp > MaxAge(obs.op)

(* C13: a request whose cached entry is older than its maximum age is a   *)
(* miss: cache_misses is raised, cache_hits is unchanged, the entry is    *)
(* not returned and a provider is queried again.                          *)
C13_ExpiredEntryIsMiss ==
    StartedWithExpiredEntry =>
        /\ cache_misses > obs.misses0
        /\ cache_hits = obs.hits0
        /\ result.kind # "none" =>
              (result.src # "cache" /\ result.data # obs.cache0[call.key].data)
        /\ Done => Len(Queried) > 0

(* C13 witness: an options chain whose entry is a tenth of a second past  *)
(* its maximum age is fetched from Polygon again.                         *)
C13_Witness ==
    /\ StartedWithExpiredEntry
    /\ Done
    /\ obs.op = "options"
    /\ obs.t0 - obs.cache0[call.key].timestamp = OptionsMaxAge + 1
    /\ result.kind = "data"
    /\ result.src = "polygon"

(* The running call is the first one of a new instance, its operation is  *)
(* cached and the previous instance had left an entry under its key.      *)
FirstCallOfNewInstance ==
    /\ InCall
    /\ last.op = "restart"
    /\ Cached(obs.op)
    /\ last.entries[call.key] # NoFile

EntryAgeAtStart == obs.t0 - last.entries[call.key].timestamp

(* C14: an entry written by one instance is served as a hit by a new      *)
(* instance on the same cache_dir when its age is within the maximum age  *)
(* (the first hit of the new instance, no provider queried); an entry     *)
(* older than that is not served and its file is removed: what is under   *)
(* the key afterwards is nothing or a record written by the new fetch.    *)
C14_EntriesSurviveRestart ==
    FirstCallOfNewInstance =>
        /\ EntryAgeAtStart <= MaxAge(obs.op) =>
              /\ Done
              /\ result.src = "cache"
              /\ result.data = last.entries[call.key].data
              /\ cache[call.key] = last.entries[call.key]
              /\ cache_hits = 1
              /\ cache_misses = 0
              /\ Len(Queried) = 0
        /\ EntryAgeAtStart > MaxAge(obs.op) =>
              /\ result.kind # "none" => result.src # "cache"
              /\ cache_hits = 0
              /\ cache[call.key] # last.entries[call.key]
              /\ cache[call.key] # NoFile => cache[call.key].timestamp >= obs.t0

(* C14 witness: the new instance serves the old instance's entry at       *)
(* exactly its maximum age.                                               *)
C14_Witness ==
    /\ FirstCallOfNewInstance
    /\ Done
    /\ EntryAgeAtStart = MaxAge(obs.op)
    /\ result.src = "cache"

(* The other half of C14: the new instance found the entry expired,       *)
(* removed it and could not replace it.                                   *)
C14_ExpiredRemoved ==
    /\ FirstCallOfNewInstance
    /\ Done
    /\ EntryAgeAtStart > MaxAge(obs.op)
    /\ cache[call.key] = NoFile

(* C15: live quotes are never cached: get_latest_prices serves nothing    *)
(* from the cache, leaves every cache file as it was and leaves           *)
(* cache_hits and cache_misses unchanged, whatever the feeds do.          *)
C15_LatestPricesBypassCache ==
    (InCall /\ obs.op = "latest") =>
        /\ cache = obs.cache0
        /\ cache_hits = obs.hits0
        /\ cache_misses = obs.misses0
        /\ result.kind # "none" => result.src # "cache"

(* C15 witness: with caching enabled and an entry in the cache, a         *)
(* get_latest_prices call failed over and returned prices.                *)
C15_Witness ==
    /\ Done
    /\ obs.op = "latest"
    /\ enable_caching
    /\ \E k \in KeySpace : cache[k] # NoFile
    /\ Len(Raised) > 0
    /\ result.kind = "data"

SaveFailed == SelectSeq(obs.events, LAMBDA e : e.kind = "save_failed")

(* The running call is of a cached operation and the file of its key was  *)
(* corrupt or unreadable when it started.                                 *)
StartedWithCorruptEntry ==
    /\ InCall
    /\ enable_caching
    /\ Cached(obs.op)
    /\ obs.cache0[call.key] = Corrupt

(* C16: a corrupt or unreadable cache record does not fail the fetch:     *)
(* the lookup is a miss, a provider is queried and the caller gets what   *)
(* the provider returned; a failed write of the record likewise leaves    *)
(* the caller with the provider's data.                                   *)
C16_CacheFaultsAreNotFatal ==
    /\ StartedWithCorruptEntry =>
          /\ cache_hits = obs.hits0
          /\ cache_misses > obs.misses0
          /\ result.kind # "none" =>
                (result.kind \in {"data", "empty"} /\ result.src # "cache")
          /\ Done => Len(Queried) > 0
          /\ (Done /\ Len(Returned) > 0) =>
                /\ result.src = Returned[Len(Returned)].src
                /\ frame.outcome = "data" => result.kind = "data"
    /\ (Done /\ Len(SaveFailed) > 0) =>
          /\ result.kind = "data"
          /\ result.src = SaveFailed[1].src
          /\ result.data = Payload(call.selected, call.op, call.req, now)

(* C16 witness: the record was corrupt at the start, the provider's data  *)
(* could not be written either, and the caller has the provider's data.   *)
C16_Witness ==
    /\ StartedWithCorruptEntry
    /\ Done
    /\ Len(SaveFailed) > 0
    /\ result.kind = "data"

(* A provider the operation's selection can pick is configured *)
SomeProviderUsable(op) == \E p \in Candidates(op) : sources[p]

(* C17: with a provider usable for the operation configured,              *)
(* get_historical_data and get_latest_prices return a frame, possibly     *)
(* empty, whatever the feeds do; an exception of a feed never reaches the *)
(* caller: the only exception of these methods is raised before any feed  *)
(* is called.                                                             *)
C17_FeedExceptionsAreContained ==
    (Done /\ obs.op \in {"hist", "latest"}) =>
        /\ SomeProviderUsable(obs.op) => result.kind \in {"data", "empty"}
        /\ result.kind = "raise" => (Len(Queried) = 0 /\ Len(Raised) = 0)

(* C17 witness: Alpaca, Polygon and Yahoo raised in turn and              *)
(* get_latest_prices returned an empty Series.                            *)
C17_Witness ==
    /\ Done
    /\ obs.op = "latest"
    /\ Len(Raised) = 3
    /\ result.kind = "empty"

(* A call is between its entry and its return statement *)
Running == pc \notin {"idle", "done"}

(* C18: every get_historical_data and get_latest_prices call that is      *)
(* running eventually reaches its return (or its raise), whatever the     *)
(* upstream answers.                                                      *)
C18_EveryCallEnds == Running ~> Done

(* C18 witness: a call that waited for the rate window, slept in the      *)
(* retry loop, failed over and came to its end.                           *)
C18_Witness ==
    /\ Done
    /\ obs.waited > 0
    /\ obs.slept > 0
    /\ Len(Queried) = 2

(* Every recorded timestamp younger than 60 s is in call_timestamps *)
NoRecordedTimestampLost ==
    \A i \in 1..Len(obs.recorded) :
        InWindow(now, obs.recorded[i]) =>
            \E j \in 1..Len(call_timestamps) : call_timestamps[j] = obs.recorded[i]

(* C19, as claimed: with concurrent callers of _make_request the          *)
(* admission check and the recording of timestamps exclude each other: no *)
(* recorded timestamp younger than 60 s is lost, and no two callers are   *)
(* admitted into the last free slot, so that no more than                 *)
(* calls_per_minute requests leave within 60 s.                           *)
C19_WindowMutationIsExclusive ==
    /\ NoRecordedTimestampLost
    /\ SentInWindow <= calls_per_minute

(* Every lookup and store of the key has completed *)
RaceOver == \A t \in Threads : pc[t] = "done"

(* C20, as claimed: same-key races resolve last-write-wins: once every    *)
(* concurrent lookup and store of the key has completed, the file holds   *)
(* the complete entry of the store that completed last, and no lookup     *)
(* removes an entry other than the one it inspected.                      *)
C20_LastWriteWins ==
    /\ (RaceOver /\ Len(obs.closed) > 0) =>
          /\ Loadable(cache[RaceKey])
          /\ cache[RaceKey].head.w = obs.closed[Len(obs.closed)]
    /\ \A r \in obs.removed : r.found = r.inspected

(* The seconds slept after a 5xx at each loop index *)
BackoffSecs == <<1, 2, 4>>

(* C21: in _make_request a 429 is followed by a fixed 60 s cooldown and a *)
(* 5xx by a backoff of 2^attempt seconds (1, 2, 4); each of them uses up  *)
(* one attempt: the i-th request of the call is made at loop index i - 1  *)
(* and there are at most `retries` of them.                               *)
C21_CooldownVersusBackoff ==
    InCall =>
        /\ Len(obs.tries) <= retries
        /\ \A i \in 1..Len(obs.tries) :
              /\ obs.tries[i].attempt = i - 1
              /\ obs.tries[i].resp = "429" => obs.tries[i].sleep = CooldownSecs * Sec
              /\ obs.tries[i].resp = "5xx" => obs.tries[i].sleep = BackoffSecs[i] * Sec

(* C21 witness: one _make_request answered 429, 5xx, 5xx *)
C21_Witness ==
    /\ InCall
    /\ Len(obs.tries) = 3
    /\ obs.tries[1].resp = "429"
    /\ obs.tries[2].resp = "5xx"
    /\ obs.tries[3].resp = "5xx"

(* C22, as claimed: whatever credentials were supplied, a constructed     *)
(* manager lists 'yahoo' among its available sources and reports it       *)
(* healthy.                                                               *)
C22_YahooAlwaysAvailable ==
    /\ "yahoo" \in get_available_sources(sources)
    /\ health_check(sources, connected)["yahoo"]

(* The timeframes the docstring calls intraday *)
IntradayTimeframes == {"1Min", "5Min", "15Min", "1Hour"}

(* A get_historical_data call for intraday bars that found, at its start, *)
(* an entry under its key that was more than one minute old               *)
StartedWithOldIntradayEntry ==
    /\ InCall
    /\ obs.op = "hist"
    /\ call.req.timeframe \in IntradayTimeframes
    /\ obs.cache0[call.key].kind = "record"
    /\ obs.t0 - obs.cache0[call.key].timestamp > IntradayMaxAge

(* C23, as claimed: an intraday get_historical_data request is served     *)
(* from the cache only while its entry is at most 1 minute old; an older  *)
(* entry is a miss.                                                       *)
C23_IntradayCachedOneMinute ==
    StartedWithOldIntradayEntry =>
        /\ result.src # "cache"
        /\ cache_misses > obs.misses0

(* C24, as claimed: within one _make_request every HTTP attempt, retries  *)
(* included, is preceded by its own _enforce_rate_limit: no second        *)
(* request is sent since the last admission check.                        *)
C24_EveryAttemptAdmitted ==
    InCall => obs.http <= 1

(* A historical call whose first provider was Polygon and whose HTTP      *)
(* request was answered with 5xx on every one of its attempts             *)
PolygonExhaustedRetries ==
    /\ Done
    /\ obs.op = "hist"
    /\ Len(Queried) > 0
    /\ Queried[1].src = "polygon"
    /\ Len(obs.tries) = retries
    /\ \A i \in 1..Len(obs.tries) : obs.tries[i].resp = "5xx"

(* C25, as claimed: when the first-priority provider for historical bars  *)
(* exhausts its retries on 5xx answers, its call ends in an error and the *)
(* manager asks the next provider in priority order.                      *)
C25_ExhaustedRetriesFailOver ==
    PolygonExhaustedRetries =>
        /\ \E i \in 1..Len(Raised) : Raised[i].src = "polygon"
        /\ \E i \in 1..Len(Queried) : Queried[i].src = "yahoo"

(* A get_latest_prices call in which Alpaca raised while Polygon is not   *)
(* configured and Yahoo is                                                *)
AlpacaFailedPolygonAbsent ==
    /\ Done
    /\ obs.op = "latest"
    /\ \E i \in 1..Len(Raised) : Raised[i].src = "alpaca"
    /\ ~sources["polygon"]
    /\ sources["yahoo"]

(* C26, as claimed: in get_latest_prices a failing provider is followed   *)
(* by the next configured one in the order Alpaca, Polygon, Yahoo: with   *)
(* Alpaca failing, Polygon absent and Yahoo present, Yahoo is queried.    *)
C26_LatestFailsOverPastMissing ==
    AlpacaFailedPolygonAbsent =>
        \E i \in 1..Len(Queried) : Queried[i].src = "yahoo"

(* C27: an HTTP 4xx answer other than 429 ends _make_request at once: it  *)
(* is the last attempt of the request, no sleep follows it, and the       *)
(* request has failed (the feed method got no results from it).           *)
C27_ClientErrorNotRetried ==
    InCall =>
        \A i \in 1..Len(obs.tries) :
            obs.tries[i].resp = "4xx" =>
                /\ i = Len(obs.tries)
                /\ obs.tries[i].sleep = 0
                /\ pc \notin {"attempt", "rate_limit"}
                /\ pc = "return" => frame.outcome = "empty"

C27_Witness ==
    /\ pc = "return"
    /\ Len(obs.tries) = 2
    /\ obs.tries[1].resp = "5xx"
    /\ obs.tries[2].resp = "4xx"
    /\ obs.slept = Sec

(* C28, as claimed: a cache hit returns only a payload that was fetched   *)
(* for the same request (same symbols, start and end datetime including   *)
(* the time of day, and timeframe).  Stated for payloads that came from   *)
(* Yahoo, whose query is given the start datetime as it is.               *)
C28_HitIsForSameRequest ==
    (Done /\ result.kind = "data" /\ result.src = "cache" /\ result.data.src = "yahoo") =>
        result.data.req = call.req

(* A cached operation repeated right after a provider answered the same   *)
(* request with an empty result                                           *)
RepeatedAfterEmpty ==
    /\ InCall
    /\ Cached(obs.op)
    /\ last.op = obs.op
    /\ last.req = call.req
    /\ last.result.kind = "empty"
    /\ last.result.src \in Providers

(* C29: no cache entry ever holds an empty payload; an empty provider     *)
(* result is returned without being stored, so the same request repeated  *)
(* is not a hit: it counts a further miss and queries a provider again.   *)
C29_EmptyResultsNotCached ==
    /\ \A k \in KeySpace : cache[k].kind = "record" => cache[k].data.kind = "payload"
    /\ Done /\ Cached(obs.op) /\ result.kind = "empty" => cache[call.key] = NoFile
    /\ RepeatedAfterEmpty =>
          /\ result.kind # "none" => result.src # "cache"
          /\ cache_hits = obs.hits0
          /\ cache_misses > obs.misses0
          /\ Done => Len(Queried) > 0

C29_Witness ==
    /\ RepeatedAfterEmpty
    /\ enable_caching
    /\ Done
    /\ result.kind = "data"
    /\ result.src = last.result.src
    /\ cache[call.key].kind = "record"

(* C30, as claimed: in every reachable state of PolygonWebSocketClient    *)
(* authenticated implies connected, under any interleaving of connect and *)
(* disconnect with the callbacks and a failure of the run loop.           *)
C30_AuthenticatedImpliesConnected ==
    frame.authenticated => frame.connected

====
